---- MODULE Spec2Model ----
(***************************************************************************)
(* gelbooru-scraper: the fetch-and-download pipeline of src/main.rs.       *)
(*                                                                         *)
(* _main is modelled step by step: the probe search, the confirmation      *)
(* prompt, the creation of the output directory, the opening of the JSON   *)
(* sink, the pagination loop with its per-post existence check, the spawn  *)
(* of the collected futures on a JoinSet, the download tasks behind the    *)
(* 24-permit semaphore, the join loop, the summary line and the JSON       *)
(* emission.  The remote service and the file system are the environment. *)
(*                                                                         *)
(* The JoinSet is a bag of task records: two tasks made from equal posts   *)
(* are interchangeable, tasks made from different posts are not.           *)
(***************************************************************************)
EXTENDS Integers, Sequences, FiniteSets, Bags, TLC

VARIABLES
    remote,        \* what the search service answers: [count, pages]
    cli,           \* the parsed command line: [write_json, write_pretty_json]
    dirExists,     \* output_dir exists (as a directory)
    fs,            \* names of the entries inside output_dir
    jsonFile,      \* the metadata file: [exists, content]
    json_printer,  \* [kind, sink, map]
    emitted,       \* every serialization done by JsonPrinter::write, in order
    pc,            \* where _main is
    result,        \* what _main returned: "running", "Ok", "Err(search)", "Err(io)"
    count,         \* attributes.count of the probe
    page,          \* the pagination offset
    queue,         \* the posts of the current page the for loop has not visited
    tasks,         \* the Vec of futures not yet spawned
    joins,         \* the JoinSet: a bag of task records
    permits,       \* permits available in client.semaphore
    processed,     \* AtomicUsize
    written,       \* AtomicUsize
    stdout,        \* bag of the progress lines printed
    summary,       \* the summary line: <<>> or <<[wrote, skipped]>>
    searches,      \* every query_gelbooru call issued, in order, and whether it returned Ok
    fetches,       \* bag of the posts whose file_url was requested
    writes,        \* bag of the names tokio::fs::write was called on
    faults,        \* fetch/write failures the environment may still inject
    run,           \* 1 for the first invocation of the program, 2 for the next
    prev           \* what the previous invocation left: <<>> or <<record>>

vars == <<remote, cli, dirExists, fs, jsonFile, json_printer, emitted, pc, result,
          count, page, queue, tasks, joins, permits, processed, written, stdout,
          summary, searches, fetches, writes, faults, run, prev>>

----------------------------------------------------------------------------
(* Bounds of the model *)

\* pages the service holds before it answers with an absent "post" key
MaxPages == 2
\* posts on one page of the small remotes
MaxPerPage == 2
\* fetch/write failures injected in one invocation
MaxFaults == 1
\* tasks beyond the number of permits in the large remote
Extra == 1

(* Program constants *)

\* tokio::sync::Semaphore::new(24)
K == 24
\* the limit of the paginated query
PageLimit == 100
\* the limit of the probe query
ProbeLimit == 1

----------------------------------------------------------------------------
(* Posts, URLs and file names *)

\* Option<T>: None is the empty sequence, Some(x) the sequence of x alone
None == <<>>

Some(x) == <<x>>

IsSome(o) == Len(o) = 1

Unwrap(o) == o[1]

\* a file_url is a sequence of characters
Url(dir, name) == <<"h", "/">> \o dir \o <<"/">> \o name

\* two posts with the same md5, two posts with the same final path segment
PostA == [id |-> 1, md5 |-> "m1", file_url |-> Url(<<"x">>, <<"a">>)]
PostB == [id |-> 2, md5 |-> "m1", file_url |-> Url(<<"x">>, <<"b">>)]
PostC == [id |-> 3, md5 |-> "m3", file_url |-> Url(<<"y">>, <<"a">>)]

Posts == {PostA, PostB, PostC}

Last(s) == s[Len(s)]

RECURSIVE SplitFrom(_, _, _)
SplitFrom(s, cur, acc) ==
    IF s = <<>> THEN Append(acc, cur)
    ELSE IF Head(s) = "/" THEN SplitFrom(Tail(s), <<>>, Append(acc, cur))
    ELSE SplitFrom(Tail(s), Append(cur, Head(s)), acc)

\* str::split('/')
Split(s) == SplitFrom(s, <<>>, <<>>)

\* post.file_url.split('/').last().unwrap()
ActualFilename(post) == Last(Split(post.file_url))

\* an existence check that looks at the wrong path
PathNeverExists(name) == FALSE

\* output_dir.join(name).exists(), for the non-empty names of the model
PathExists(name) == dirExists /\ name \in fs

\* an increment that is lost
FetchAddLost(counter) == counter

\* the value an AtomicUsize holds after fetch_add(1)
FetchAdd(counter) == counter + 1

----------------------------------------------------------------------------
(* The remote service *)

Take(s, n) == SubSeq(s, 1, IF Len(s) < n THEN Len(s) ELSE n)

RECURSIVE SumLen(_)
SumLen(ps) == IF ps = <<>> THEN 0 ELSE Len(Head(ps)) + SumLen(Tail(ps))

\* the answer of the service to one query: the total count and, when the
\* offset is inside the catalogue, the posts of that page cut to the limit
Answer(limit, pid) ==
    [count |-> remote.count,
     posts |-> IF pid < Len(remote.pages)
               THEN Some(Take(remote.pages[pid + 1], limit))
               ELSE None]

SeqsUpTo(S, n) == UNION {[1..k -> S] : k \in 0..n}

\* the service lists posts by id
ById(s) == \A i, j \in DOMAIN s : i < j => s[i].id < s[j].id

SmallPages == {s \in SeqsUpTo(Posts, MaxPerPage) : ById(s)}

MkRemote(pages) == [count |-> SumLen(pages), pages |-> pages]

RECURSIVE Concat(_)
Concat(ps) == IF ps = <<>> THEN <<>> ELSE Head(ps) \o Concat(Tail(ps))

\* every catalogue of at most MaxPages pages, some of them possibly empty,
\* that lists distinct posts by id
SmallRemotes ==
    {MkRemote(ps) : ps \in {q \in SeqsUpTo(SmallPages, MaxPages) : ById(Concat(q))}}

\* one page of K + Extra posts
LargeRemote == MkRemote(<<[i \in 1..(K + Extra) |-> PostA]>>)

----------------------------------------------------------------------------
(* The metadata sink *)

\* the match of _main on (write_json, write_pretty_json)
MakePrinter(write_json, write_pretty_json) ==
    IF IsSome(write_json) /\ IsSome(Unwrap(write_json))
           /\ Unwrap(Unwrap(write_json)) = "-"
    THEN [kind |-> "Compact", sink |-> "stderr", map |-> <<>>]
    ELSE IF IsSome(write_json)
    THEN [kind |-> "Compact", sink |-> "file", map |-> <<>>]
    ELSE IF IsSome(write_pretty_json) /\ IsSome(Unwrap(write_pretty_json))
           /\ Unwrap(Unwrap(write_pretty_json)) = "-"
    THEN [kind |-> "Pretty", sink |-> "stderr", map |-> <<>>]
    ELSE IF IsSome(write_pretty_json)
    THEN [kind |-> "Pretty", sink |-> "file", map |-> <<>>]
    ELSE [kind |-> "NoOp", sink |-> "none", map |-> <<>>]

\* an insert that keeps the value of an existing key
MapInsertKeepFirst(map, post) ==
    [k \in (DOMAIN map) \cup {post.md5} |->
        IF k \in DOMAIN map THEN map[k] ELSE post]

\* BTreeMap::insert: the value of an existing key is replaced
MapInsert(map, post) ==
    [k \in (DOMAIN map) \cup {post.md5} |-> IF k = post.md5 THEN post ELSE map[k]]

RECURSIVE MapExtend(_, _)
\* BTreeMap::extend with the posts in order
MapExtend(map, posts) ==
    IF posts = <<>> THEN map
    ELSE MapExtend(MapInsert(map, Head(posts)), Tail(posts))

\* JsonPrinter::insert_posts
InsertPosts(printer, posts) ==
    IF printer.kind = "NoOp" THEN printer
    ELSE [printer EXCEPT !.map = MapExtend(printer.map, posts)]

\* what serde_json writes: the object, and whether it is indented
Serialize(printer) ==
    [sink |-> printer.sink, pretty |-> (printer.kind = "Pretty"), obj |-> printer.map]

CliChoices ==
    {[write_json |-> None, write_pretty_json |-> None],
     [write_json |-> Some(None), write_pretty_json |-> None],
     [write_json |-> None, write_pretty_json |-> Some(Some("-"))]}

----------------------------------------------------------------------------
(* Tasks and progress lines *)

\* the async block of one post that is not on disk
Task(post, name) == [post |-> post, name |-> name, pc |-> "acquire", res |-> "none"]

Line(post, name, tag, n) == [post |-> post, name |-> name, tag |-> tag, n |-> n]

One(x) == SetToBag({x})

RECURSIVE SeqToBag(_)
SeqToBag(s) == IF s = <<>> THEN EmptyBag ELSE One(Head(s)) (+) SeqToBag(Tail(s))

\* the JoinSet with task t advanced to t2
Moved(t, t2) == (joins (-) One(t)) (+) One(t2)

\* tasks that hold a permit
Holding == {"download", "report", "written", "drop"}

RECURSIVE BagSum(_, _)
BagSum(B, S) ==
    IF S = {} THEN 0
    ELSE LET x == CHOOSE y \in S : TRUE
         IN CopiesIn(x, B) + BagSum(B, S \ {x})

\* number of elements of bag B that satisfy Test
CountIn(B, Test(_)) == BagSum(B, {x \in BagToSet(B) : Test(x)})

IsHolding(t) == t.pc \in Holding

Held == CountIn(joins, IsHolding)

----------------------------------------------------------------------------
(* Initial states *)

\* the state of a freshly started process, for a directory and a service
Fresh ==
    /\ json_printer = [kind |-> "NoOp", sink |-> "none", map |-> <<>>]
    /\ emitted = <<>>
    /\ pc = "probe"
    /\ result = "running"
    /\ count = 0
    /\ page = 0
    /\ queue = <<>>
    /\ tasks = <<>>
    /\ joins = EmptyBag
    /\ permits = K
    /\ processed = 0
    /\ written = 0
    /\ stdout = EmptyBag
    /\ summary = <<>>
    /\ searches = <<>>
    /\ fetches = EmptyBag
    /\ writes = EmptyBag
    /\ run = 1
    /\ prev = <<>>

Names == {ActualFilename(p) : p \in Posts}

InitDisk ==
    /\ dirExists \in BOOLEAN
    /\ fs \in (IF dirExists THEN SUBSET Names ELSE {{}})
    /\ jsonFile = [exists |-> FALSE, content |-> <<>>]

Init ==
    /\ remote \in SmallRemotes
    /\ cli \in CliChoices
    /\ InitDisk
    /\ faults = MaxFaults
    /\ Fresh

----------------------------------------------------------------------------
(* _main, up to the end of pagination *)

Fail(cause) ==
    /\ pc' = "failed"
    /\ result' = cause

\* the zero-result return left out
NoResultsIgnored(a) == FALSE

\* the Err of a paginated query swallowed: the loop is left as if the
\* answer had no posts
SearchErrorSwallowed == pc' = "spawn" /\ UNCHANGED result

\* the Err of a paginated query kept for the end: the loop is left and the
\* collected futures are still launched
SearchErrorEndsLoop == pc' = "spawn" /\ result' = "Err(search)"

\* line 121: attributes.count == 0
NoResults(a) == a.count = 0

\* line 164: the ? on the Err of a paginated query returns it from _main
SearchError == Fail("Err(search)")

\* line 163: the pattern posts: Some(posts) of the while-let
LoopContinues(a) == IsSome(a.posts)

\* lines 118-124: the probe query and the zero-result return
Probe ==
    /\ pc = "probe"
    /\ \E ok \in BOOLEAN :
         /\ searches' = Append(searches, [limit |-> ProbeLimit, pid |-> 0, ok |-> ok])
         /\ IF ~ok
            THEN Fail("Err(search)") /\ UNCHANGED count
            ELSE LET a == Answer(ProbeLimit, 0)
                 IN /\ count' = a.count
                    /\ IF NoResults(a)
                       THEN pc' = "no_posts" /\ result' = "Ok"
                       ELSE pc' = "confirm" /\ UNCHANGED result
    /\ UNCHANGED <<remote, cli, dirExists, fs, jsonFile, json_printer, emitted,
                   page, queue, tasks, joins, permits, processed, written, stdout,
                   summary, fetches, writes, faults, run, prev>>

\* lines 126-135: the prompt, skipped with -y
Confirm ==
    /\ pc = "confirm"
    /\ \E yes \in BOOLEAN, input \in {"n", "y"} :
         IF ~yes /\ input = "n"
         THEN pc' = "aborted" /\ result' = "Ok"
         ELSE pc' = "mkdir" /\ UNCHANGED result
    /\ UNCHANGED <<remote, cli, dirExists, fs, jsonFile, json_printer, emitted,
                   count, page, queue, tasks, joins, permits, processed, written,
                   stdout, summary, searches, fetches, writes, faults, run, prev>>

\* lines 137-139: create_dir_all when output_dir is missing
MkDir ==
    /\ pc = "mkdir"
    /\ IF dirExists
       THEN pc' = "open_sink" /\ UNCHANGED <<dirExists, result>>
       ELSE \E ok \in BOOLEAN :
              IF ok
              THEN dirExists' = TRUE /\ pc' = "open_sink" /\ UNCHANGED result
              ELSE Fail("Err(io)") /\ UNCHANGED dirExists
    /\ UNCHANGED <<remote, cli, fs, jsonFile, json_printer, emitted,
                   count, page, queue, tasks, joins, permits, processed, written,
                   stdout, summary, searches, fetches, writes, faults, run, prev>>

\* lines 141-162: the sink is opened (File::create truncates), the counters,
\* the page offset and the task vector are initialised
OpenSink ==
    /\ pc = "open_sink"
    /\ LET printer == MakePrinter(cli.write_json, cli.write_pretty_json)
       IN IF printer.sink = "file"
          THEN \E ok \in BOOLEAN :
                 IF ok
                 THEN /\ jsonFile' = [exists |-> TRUE, content |-> <<>>]
                      /\ json_printer' = printer
                      /\ pc' = "search"
                      /\ UNCHANGED result
                 ELSE Fail("Err(io)") /\ UNCHANGED <<jsonFile, json_printer>>
          ELSE /\ json_printer' = printer
               /\ pc' = "search"
               /\ UNCHANGED <<jsonFile, result>>
    /\ processed' = 0
    /\ written' = 0
    /\ page' = 0
    /\ tasks' = <<>>
    /\ UNCHANGED <<remote, cli, dirExists, fs, emitted, count, queue, joins, permits,
                   stdout, summary, searches, fetches, writes, faults, run, prev>>

\* lines 163-166: the head of the while-let loop: one paginated query; the
\* loop is left only when the answer has no "post" key
Search ==
    /\ pc = "search"
    /\ \E ok \in BOOLEAN :
         /\ searches' = Append(searches, [limit |-> PageLimit, pid |-> page, ok |-> ok])
         /\ IF ~ok
            THEN SearchError /\ UNCHANGED <<json_printer, queue>>
            ELSE LET a == Answer(PageLimit, page)
                 IN IF LoopContinues(a)
                    THEN /\ json_printer' = InsertPosts(json_printer, Unwrap(a.posts))
                         /\ queue' = Unwrap(a.posts)
                         /\ pc' = "for_post"
                         /\ UNCHANGED result
                    ELSE /\ pc' = "spawn"
                         /\ UNCHANGED <<json_printer, queue, result>>
    /\ UNCHANGED <<remote, cli, dirExists, fs, jsonFile, emitted, count, page,
                   tasks, joins, permits, processed, written, stdout, summary,
                   fetches, writes, faults, run, prev>>

\* the future spawned on the runtime as soon as it is made
SpawnTask(post, name) ==
    /\ joins' = joins (+) One(Task(post, name))
    /\ UNCHANGED tasks

\* line 202: tasks.push(task): the future is stored, nothing polls it yet
PushTask(post, name) ==
    /\ tasks' = Append(tasks, Task(post, name))
    /\ UNCHANGED joins

\* lines 168-203: one iteration of the for loop: the post is reported as
\* already existing, with the value fetch_add returns, or its future is pushed
ForPost ==
    /\ pc = "for_post"
    /\ queue # <<>>
    /\ LET post == Head(queue)
           name == ActualFilename(post)
       IN IF PathExists(name)
          THEN /\ stdout' = stdout (+) One(Line(post, name, "already exists", processed))
               /\ processed' = FetchAdd(processed)
               /\ UNCHANGED <<tasks, joins>>
          ELSE /\ PushTask(post, name)
               /\ UNCHANGED <<stdout, processed>>
    /\ queue' = Tail(queue)
    /\ UNCHANGED <<remote, cli, dirExists, fs, jsonFile, json_printer, emitted, pc,
                   result, count, page, permits, written, summary, searches,
                   fetches, writes, faults, run, prev>>

\* the offset left as it is
SamePage(p) == p

\* line 204: page += 1
NextPage(p) == p + 1

\* line 204: the for loop is over: page += 1, back to the head of the while-let
EndPage ==
    /\ pc = "for_post"
    /\ queue = <<>>
    /\ page' = NextPage(page)
    /\ pc' = "search"
    /\ UNCHANGED <<remote, cli, dirExists, fs, jsonFile, json_printer, emitted,
                   result, count, queue, tasks, joins, permits, processed, written,
                   stdout, summary, searches, fetches, writes, faults, run, prev>>

\* lines 207-210: every collected future is spawned on the JoinSet
Spawn ==
    /\ pc = "spawn"
    /\ joins' = SeqToBag(tasks)
    /\ tasks' = <<>>
    /\ pc' = "join"
    /\ UNCHANGED <<remote, cli, dirExists, fs, jsonFile, json_printer, emitted,
                   result, count, page, queue, permits, processed, written, stdout,
                   summary, searches, fetches, writes, faults, run, prev>>

----------------------------------------------------------------------------
(* A download task: the async block of lines 184-201 *)

\* acquire that does not wait for a permit
AcquireUngated == TRUE

\* Semaphore::acquire completes only when a permit is available
CanAcquire == permits > 0

\* line 185: let _permit = semaphore.acquire().await
Acquire(t) ==
    /\ t.pc = "acquire"
    /\ CanAcquire
    /\ permits' = permits - 1
    /\ joins' = Moved(t, [t EXCEPT !.pc = "download"])
    /\ UNCHANGED <<remote, cli, dirExists, fs, jsonFile, json_printer, emitted, pc,
                   result, count, page, queue, tasks, processed, written, stdout,
                   summary, searches, fetches, writes, faults, run, prev>>

\* how one call of download_image can end: the bytes are written, the fetch
\* fails, or the write fails, leaving no file or a truncated one
DownloadEnds ==
    {"ok"} \cup (IF faults > 0 THEN {"fetch_err", "write_err", "write_partial"} ELSE {})

\* a failed download_image is tried again
AfterDownloadRetry(end) == IF end = "ok" THEN "report" ELSE "download"

\* the task goes on to the match without counting the post as processed
AfterDownloadUncounted(end) == "written"

\* line 187: download_image is awaited once; whatever it returns is reported
AfterDownload(end) == "report"

\* both arms of the match increment written
AfterReportCountsErr(res) == "written"

\* lines 190-198: only the Ok arm increments written
AfterReport(res) == IF res = "Ok" THEN "written" ELSE "drop"

\* lines 187, 287-302: download_image: one GET of file_url, one fs::write
DownloadImage(t) ==
    /\ t.pc = "download"
    /\ fetches' = fetches (+) One(t.post)
    /\ \E end \in DownloadEnds :
         /\ writes' = IF end = "fetch_err" THEN writes ELSE writes (+) One(t.name)
         /\ fs' = IF end \in {"ok", "write_partial"} THEN fs \cup {t.name} ELSE fs
         /\ faults' = IF end = "ok" THEN faults ELSE faults - 1
         /\ joins' = Moved(t, [t EXCEPT !.pc = AfterDownload(end),
                                         !.res = IF end = "ok" THEN "Ok" ELSE "Err"])
    /\ UNCHANGED <<remote, cli, dirExists, jsonFile, json_printer, emitted, pc,
                   result, count, page, queue, tasks, permits, processed, written,
                   stdout, summary, searches, run, prev>>

\* lines 188-198: processed.fetch_add(1) + 1 is printed with the outcome
Report(t) ==
    /\ t.pc = "report"
    /\ processed' = FetchAdd(processed)
    /\ stdout' = stdout (+) One(Line(t.post, t.name,
                                     IF t.res = "Ok" THEN "downloaded" ELSE "error",
                                     processed'))
    /\ joins' = Moved(t, [t EXCEPT !.pc = AfterReport(t.res)])
    /\ UNCHANGED <<remote, cli, dirExists, fs, jsonFile, json_printer, emitted, pc,
                   result, count, page, queue, tasks, permits, written, summary,
                   searches, fetches, writes, faults, run, prev>>

\* line 193: written.fetch_add(1), on success only
Written(t) ==
    /\ t.pc = "written"
    /\ written' = FetchAdd(written)
    /\ joins' = Moved(t, [t EXCEPT !.pc = "drop"])
    /\ UNCHANGED <<remote, cli, dirExists, fs, jsonFile, json_printer, emitted, pc,
                   result, count, page, queue, tasks, permits, processed, stdout,
                   summary, searches, fetches, writes, faults, run, prev>>

\* a permit that is never given back
PermitLeaked(t) == permits

\* a permit that is given back only by a task whose download succeeded
PermitKeptOnErr(t) == IF t.res = "Ok" THEN permits + 1 ELSE permits

\* the permits available once the SemaphorePermit of task t is dropped
PermitDropped(t) == permits + 1

\* lines 200-201: the block returns Ok(()) and _permit is dropped
Drop(t) ==
    /\ t.pc = "drop"
    /\ permits' = PermitDropped(t)
    /\ joins' = Moved(t, [t EXCEPT !.pc = "finished"])
    /\ UNCHANGED <<remote, cli, dirExists, fs, jsonFile, json_printer, emitted, pc,
                   result, count, page, queue, tasks, processed, written, stdout,
                   summary, searches, fetches, writes, faults, run, prev>>

TaskStep ==
    \E t \in BagToSet(joins) :
        Acquire(t) \/ DownloadImage(t) \/ Report(t) \/ Written(t) \/ Drop(t)

----------------------------------------------------------------------------
(* _main, from the join loop to the end *)

IsFinished(t) == t.pc = "finished"

\* a join loop that stops at the first finished task
FirstJoined == joins = EmptyBag \/ CountIn(joins, IsFinished) >= 1

\* join_next has returned every task once each of them has finished
AllJoined == CountIn(joins, IsFinished) = BagCardinality(joins)

\* the summary without the subtraction
SummaryLineNoSub(w, p) == [wrote |-> w, skipped |-> p]

\* lines 215-220: Wrote {written} files. Skipped {processed - written}.
SummaryLine(w, p) == [wrote |-> w, skipped |-> p - w]

\* lines 211-220: the join loop takes the Ok(Ok(())) of every task, in any
\* order, and only then the summary line is printed
Summary ==
    /\ pc = "join"
    /\ AllJoined
    /\ joins' = EmptyBag
    /\ summary' = <<SummaryLine(written, processed)>>
    /\ pc' = "emit"
    /\ UNCHANGED <<remote, cli, dirExists, fs, jsonFile, json_printer, emitted,
                   result, count, page, queue, tasks, permits, processed,
                   written, stdout, searches, fetches, writes, faults, run, prev>>

\* lines 222-224, 381-392: JsonPrinter::write, then Ok(())
Emit ==
    /\ pc = "emit"
    /\ IF json_printer.kind = "NoOp"
       THEN pc' = "done" /\ result' = "Ok" /\ UNCHANGED <<emitted, jsonFile>>
       ELSE \E ok \in BOOLEAN :
              IF ok
              THEN /\ emitted' = Append(emitted, Serialize(json_printer))
                   /\ jsonFile' = IF json_printer.sink = "file"
                                  THEN [jsonFile EXCEPT
                                           !.content = <<Serialize(json_printer)>>]
                                  ELSE jsonFile
                   /\ pc' = "done"
                   /\ result' = "Ok"
              ELSE Fail("Err(io)") /\ UNCHANGED <<emitted, jsonFile>>
    /\ UNCHANGED <<remote, cli, dirExists, fs, json_printer, count, page, queue,
                   tasks, joins, permits, processed, written, stdout, summary,
                   searches, fetches, writes, faults, run, prev>>

IsError(l) == l.tag = "error"

\* some progress line of this invocation reports an error
AnyFailed == CountIn(stdout, IsError) > 0

\* main (lines 77-86) is invoked again after an invocation that returned
\* Ok(()) from line 224: same command line, same service, the directory as
\* that invocation left it
Rerun ==
    /\ pc = "done"
    /\ run = 1
    /\ run' = run + 1
    /\ prev' = <<[fs |-> fs, failed |-> AnyFailed, wrote |-> written]>>
    /\ json_printer' = [kind |-> "NoOp", sink |-> "none", map |-> <<>>]
    /\ emitted' = <<>>
    /\ pc' = "probe"
    /\ result' = "running"
    /\ count' = 0
    /\ page' = 0
    /\ queue' = <<>>
    /\ tasks' = <<>>
    /\ joins' = EmptyBag
    /\ permits' = K
    /\ processed' = 0
    /\ written' = 0
    /\ stdout' = EmptyBag
    /\ summary' = <<>>
    /\ searches' = <<>>
    /\ fetches' = EmptyBag
    /\ writes' = EmptyBag
    /\ faults' = MaxFaults
    /\ UNCHANGED <<remote, cli, dirExists, fs, jsonFile>>

----------------------------------------------------------------------------
(* Specifications *)

Step ==
    \/ Probe
    \/ Confirm
    \/ MkDir
    \/ OpenSink
    \/ Search
    \/ ForPost
    \/ EndPage
    \/ Spawn
    \/ TaskStep
    \/ Summary
    \/ Emit

Next == Step \/ Rerun

Spec == Init /\ [][Next]_vars

\* one invocation against the large remote: more tasks than permits
InitGate ==
    /\ remote \in {LargeRemote, MkRemote(<<>>)}
    /\ cli \in {[write_json |-> Some(Some("-")), write_pretty_json |-> Some(None)]}
    /\ dirExists \in BOOLEAN
    /\ fs \in (IF dirExists THEN {{}, Names} ELSE {{}})
    /\ jsonFile = [exists |-> FALSE, content |-> <<>>]
    /\ faults = 0
    /\ Fresh

SpecGate == InitGate /\ [][Step]_vars

\* one invocation with --write-json, at most one file on disk; block_on drives _main and the runtime's workers poll every
\* spawned task: a step of the invocation that stays possible is eventually taken
InitFair == Init /\ IsSome(cli.write_json) /\ fs \subseteq {ActualFilename(PostA)}

FairSpec == InitFair /\ [][Step]_vars /\ WF_vars(Step)

\* one invocation against the large remote under the same scheduling: the
\* semaphore hands a released permit to a waiting acquire, the workers keep
\* polling the spawned tasks
FairGate == InitGate /\ [][Step]_vars /\ WF_vars(Step)

----------------------------------------------------------------------------
(* What the service holds, for the statements below *)

RECURSIVE Flatten(_)
Flatten(ps) == IF ps = <<>> THEN <<>> ELSE Take(Head(ps), PageLimit) \o Flatten(Tail(ps))

\* every post a complete pagination discovers, in discovery order
Catalogue == Flatten(remote.pages)

Occurrences(p) == Cardinality({i \in DOMAIN Catalogue : Catalogue[i] = p})

\* progress lines printed for post p, and those with a given tag
LinesOf(p) == CountIn(stdout, LAMBDA l : l.post = p)

LinesWith(p, tag) == CountIn(stdout, LAMBDA l : l.post = p /\ l.tag = tag)

Tagged(tag) == CountIn(stdout, LAMBDA l : l.tag = tag)

\* tasks of post p in the JoinSet at one of the given places
TasksAt(p, places) == CountIn(joins, LAMBDA t : t.post = p /\ t.pc \in places)

SummaryReached == summary # <<>>

----------------------------------------------------------------------------
(* Claims *)

\* C1: in every reachable state the number of download tasks holding a gate
\* permit (between the acquire and the drop of the permit) is at most K = 24,
\* also when more than 24 tasks were admitted.
C1_AtMostKHold == Held <= K

\* 24 tasks hold a permit while a 25th waits for one
C1_Witness ==
    /\ Held = K
    /\ BagCardinality(joins) > K
    /\ \E t \in BagToSet(joins) : t.pc = "acquire"

\* C2: no post ever has more progress lines (terminal outcomes) than it was
\* discovered; once the summary is printed every discovered post has exactly
\* one outcome per discovery and processed equals the number of discovered
\* posts.
C2_Completeness ==
    /\ \A p \in Posts : LinesOf(p) <= Occurrences(p)
    /\ SummaryReached =>
          /\ \A p \in Posts : LinesOf(p) = Occurrences(p)
          /\ processed = Len(Catalogue)

\* a summary after three posts on two pages: one skipped, one downloaded, one failed
C2_Witness ==
    /\ SummaryReached
    /\ Len(remote.pages) = 2
    /\ Len(Catalogue) = 3
    /\ Tagged("already exists") = 1
    /\ Tagged("downloaded") = 1
    /\ Tagged("error") = 1

HasError == Tagged("error") > 0

AllReported == \A p \in Posts : LinesOf(p) = Occurrences(p)

\* the step in which a task prints its error line
FailedReport == Tagged("error")' = Tagged("error") + 1

\* C3: a failed fetch or write is a Failed outcome of that item only: the
\* step that reports it increments processed, leaves written, _main and every
\* other task as they are; written never counts a failed item; after it
\* every post still gets its outcome and the summary is reached, and the only
\* error the invocation can still return is an I/O error of the sink after
\* the summary.
C3_FailureIsLocal ==
    /\ [][FailedReport =>
            /\ processed' = processed + 1
            /\ written' = written
            /\ pc' = pc /\ result' = result
            /\ \E t \in BagToSet(joins) :
                  /\ t.res = "Err"
                  /\ joins' = (joins (-) One(t)) (+) One([t EXCEPT !.pc = "drop"])]_vars
    /\ [](written <= Tagged("downloaded"))
    /\ [](HasError /\ result # "running" =>
            \/ result = "Ok"
            \/ result = "Err(io)" /\ SummaryReached)
    /\ (HasError ~> (SummaryReached /\ AllReported))

\* an invocation that returned Ok after one failed and one successful download
C3_Witness ==
    /\ pc = "done"
    /\ result = "Ok"
    /\ Tagged("error") = 1
    /\ Tagged("downloaded") >= 1
    /\ summary = <<[wrote |-> Tagged("downloaded"), skipped |-> processed - written]>>

NoDownloadActivity ==
    /\ tasks = <<>>
    /\ joins = EmptyBag
    /\ fetches = EmptyBag
    /\ writes = EmptyBag
    /\ Tagged("downloaded") = 0
    /\ Tagged("error") = 0

AllSkipped == \A p \in Posts : LinesWith(p, "already exists") = Occurrences(p)

EmptyOrAbsent(a) == ~IsSome(a.posts) \/ Unwrap(a.posts) = <<>>

\* C5: the pagination loop stops at the first page whose posts are absent or
\* empty: every paginated query was issued only after non-empty answers to
\* all smaller offsets.
C5_StopsAtFirstEmptyPage ==
    \A i \in DOMAIN searches :
        searches[i].limit = PageLimit =>
            \A m \in 0..(searches[i].pid - 1) : ~EmptyOrAbsent(Answer(PageLimit, m))

\* C6: a probe that reports count = 0 ends the invocation with "No posts
\* found": the step changes neither the directory nor the sink, and in the
\* state it leaves the probe is the only query issued, no task exists, nothing
\* was fetched or written and the sink was never opened.
C6_ZeroResultShortCircuit ==
    /\ [][(pc = "probe" /\ pc' # "failed" /\ remote.count = 0) =>
            /\ pc' = "no_posts"
            /\ result' = "Ok"
            /\ UNCHANGED <<dirExists, fs, jsonFile, json_printer, emitted>>]_vars
    /\ [](pc = "no_posts" =>
            /\ remote.count = 0
            /\ searches = <<[limit |-> ProbeLimit, pid |-> 0, ok |-> TRUE]>>
            /\ NoDownloadActivity
            /\ stdout = EmptyBag
            /\ json_printer.kind = "NoOp"
            /\ ~jsonFile.exists
            /\ emitted = <<>>
            /\ summary = <<>>)

\* no results for a query with --write-json and a missing output directory
C6_Witness ==
    /\ pc = "no_posts"
    /\ ~dirExists
    /\ IsSome(cli.write_json)
    /\ ~jsonFile.exists
    /\ Len(remote.pages) >= 1

SearchFailed == \E i \in DOMAIN searches : ~searches[i].ok

\* C7: once a query (the probe or a page) has failed, the invocation has
\* returned the error: nothing was serialized to the sink (a sink file this
\* invocation opened is empty), no summary was printed, no download ran, and
\* the result is not Ok.
C7_SearchErrorIsFatal ==
    SearchFailed =>
        /\ pc = "failed"
        /\ result = "Err(search)"
        /\ ~searches[Len(searches)].ok
        /\ emitted = <<>>
        /\ json_printer.sink = "file" => jsonFile.content = <<>>
        /\ summary = <<>>
        /\ joins = EmptyBag
        /\ fetches = EmptyBag

\* the query of the second page failed after the first page was recorded,
\* the sink file was opened and a task was collected
C7_Witness ==
    /\ SearchFailed
    /\ page = 1
    /\ tasks # <<>>
    /\ json_printer.sink = "file"
    /\ jsonFile.exists
    /\ DOMAIN json_printer.map # {}

\* the records of all pages merged by md5: the last discovered post of each
MergedAll ==
    [m \in {Catalogue[i].md5 : i \in DOMAIN Catalogue} |->
        Catalogue[CHOOSE i \in DOMAIN Catalogue :
                     /\ Catalogue[i].md5 = m
                     /\ \A j \in DOMAIN Catalogue : Catalogue[j].md5 = m => j <= i]]

EmissionRequested == IsSome(cli.write_json) \/ IsSome(cli.write_pretty_json)

\* C8: the summary is printed and the map is serialized only when no task
\* is left unfinished and every discovered post has its outcome; the map is
\* serialized at most once, always as the merge of all pages, and exactly once
\* in an invocation that asked for it and returned Ok.
C8_SummaryAndEmissionAfterJoin ==
    /\ SummaryReached =>
          /\ tasks = <<>>
          /\ joins = EmptyBag
          /\ AllReported
          /\ processed = BagCardinality(stdout)
          /\ permits = K
    /\ emitted # <<>> =>
          /\ SummaryReached
          /\ Len(emitted) = 1
          /\ emitted[1].obj = MergedAll
    /\ (pc = "done" /\ EmissionRequested) => Len(emitted) = 1
    /\ (pc = "done" /\ ~EmissionRequested) => emitted = <<>>

\* the map of two pages that share an md5 was written to the file after a download
C8_Witness ==
    /\ pc = "done"
    /\ Len(emitted) = 1
    /\ jsonFile.content = emitted
    /\ Len(remote.pages) = 2
    /\ Cardinality(DOMAIN emitted[1].obj) < Len(Catalogue)
    /\ Tagged("downloaded") >= 1

\* the step of the for loop that visits the post at the head of the queue
VisitsPost == pc = "for_post" /\ queue # <<>> /\ queue' = Tail(queue)

C10_SummaryCounts ==
    SummaryReached =>
        /\ summary[1].wrote = Tagged("downloaded")
        /\ summary[1].skipped = processed - written
        /\ summary[1].skipped = Tagged("already exists") + Tagged("error")

\* three posts, one failed fetch: Wrote 2 files. Skipped 1.
C10_Witness ==
    /\ summary = <<[wrote |-> 2, skipped |-> 1]>>
    /\ Tagged("downloaded") = 2
    /\ Tagged("error") = 1
    /\ Tagged("already exists") = 0

----------------------------------------------------------------------------
\* the md5 keys of a sequence of posts
Keys(posts) == {posts[i].md5 : i \in DOMAIN posts}

\* the last post of the sequence with md5 k
LastWith(posts, k) ==
    posts[CHOOSE i \in DOMAIN posts :
             /\ posts[i].md5 = k
             /\ \A j \in DOMAIN posts : posts[j].md5 = k => j <= i]

\* the store after a page is recorded: one entry per md5, that of the page
\* where the page has one, the old one elsewhere
LaterWins(map, posts) ==
    [k \in (DOMAIN map) \cup Keys(posts) |->
        IF k \in Keys(posts) THEN LastWith(posts, k) ELSE map[k]]

\* C11: the store holds one entry per md5 and a page recorded later replaces
\* the entry of an md5 an earlier page had: each recording step leaves the
\* store as the old one overridden by the page, nothing else changes the
\* store within an invocation, and recording any page of the
\* service a second time on top of a store that has it changes nothing.
C11_LaterPageWins ==
    /\ [][(run' = run /\ json_printer'.map # json_printer.map) =>
            /\ pc = "search"
            /\ json_printer'.map =
                  LaterWins(json_printer.map, Unwrap(Answer(PageLimit, page).posts))]_vars
    /\ [](\A i \in DOMAIN remote.pages :
            LET q == remote.pages[i]
                once == InsertPosts(json_printer, q)
            IN /\ InsertPosts(once, q) = once
               /\ \A j \in DOMAIN q :
                     MapInsert(MapInsert(json_printer.map, q[j]), q[j])
                        = MapInsert(json_printer.map, q[j]))

\* PostA of page 0 and PostB of page 1 share md5 m1: the store holds PostB
C11_Witness ==
    /\ remote.pages = <<<<PostA>>, <<PostB>>>>
    /\ page = 1
    /\ pc = "for_post"
    /\ json_printer.kind # "NoOp"
    /\ DOMAIN json_printer.map = {"m1"}
    /\ json_printer.map["m1"] = PostB

----------------------------------------------------------------------------
\* a task of the JoinSet that has no outcome yet
InFlight(t) == t.pc # "finished"

\* C12 as stated: download tasks are launched as their page is discovered:
\* when the query of the next page is issued no collected future is left
\* unlaunched.
C12_LaunchedAsDiscovered == pc = "search" => tasks = <<>>

\* C12, amended: the futures are collected during pagination and launched
\* only after it has ended: while _main is before the spawn loop the JoinSet
\* is empty, every permit is available and nothing was fetched or written,
\* every query is issued with no task launched, and a task is in flight only
\* after the query that was answered without posts.
C12_LaunchedAfterDiscovery ==
    /\ [][(run' = run /\ searches' # searches) =>
            /\ joins = EmptyBag /\ joins' = EmptyBag
            /\ fetches' = EmptyBag]_vars
    /\ [](pc \in {"probe", "confirm", "mkdir", "open_sink", "search", "for_post", "spawn"} =>
            /\ joins = EmptyBag
            /\ permits = K
            /\ fetches = EmptyBag
            /\ writes = EmptyBag
            /\ Tagged("downloaded") + Tagged("error") = 0)
    /\ [](CountIn(joins, InFlight) > 0 =>
            /\ pc = "join"
            /\ Last(searches).ok
            /\ ~IsSome(Answer(PageLimit, Last(searches).pid).posts))

\* two pages were discovered and the query after them answered without posts
\* before the task of the first page's post started its download
C12_Witness ==
    /\ Len(remote.pages) = 2
    /\ Len(remote.pages[1]) >= 1
    /\ Len(searches) = 4
    /\ pc = "join"
    /\ \E t \in BagToSet(joins) : t.post = remote.pages[1][1] /\ t.pc = "download"
    /\ \E t \in BagToSet(joins) : t.pc = "acquire"

----------------------------------------------------------------------------
\* a query of the pagination loop has failed
PageSearchFailed == \E i \in DOMAIN searches : searches[i].limit = PageLimit /\ ~searches[i].ok

\* futures collected or launched that have no outcome
Pending == Len(tasks) + CountIn(joins, InFlight)

\* C13 as stated: a failed query of a later page leaves no task of an earlier
\* page without its outcome: when the invocation has ended every such task
\* has run to the end.
C13_TasksOutliveSearchError == (PageSearchFailed /\ result # "running") => Pending = 0

\* C13, amended: a failed query of a later page ends the invocation: the
\* step returns the error, launches nothing and leaves the collected futures as
\* they are; no task was launched before it and none is afterwards, so the
\* futures collected for earlier pages never fetch, write or report.
C13_SearchErrorDropsTasks ==
    /\ [][(pc = "search" /\ pc' = "failed") =>
            /\ result' = "Err(search)"
            /\ joins = EmptyBag /\ joins' = EmptyBag
            /\ UNCHANGED <<tasks, fs, fetches, writes, stdout, processed, written>>]_vars
    /\ [][(PageSearchFailed /\ run' = run) => UNCHANGED vars]_vars
    /\ [](PageSearchFailed =>
            /\ pc = "failed"
            /\ joins = EmptyBag
            /\ permits = K
            /\ fetches = EmptyBag
            /\ writes = EmptyBag
            /\ Tagged("downloaded") + Tagged("error") = 0
            /\ written = 0)

\* the query of page 1 failed with the future of a post of page 0 collected
C13_Witness ==
    /\ PageSearchFailed
    /\ Len(searches) = 3
    /\ result = "Err(search)"
    /\ Len(tasks) >= 1
    /\ tasks[1].post = remote.pages[1][1]
    /\ CopiesIn(tasks[1].post, fetches) = 0
    /\ LinesOf(tasks[1].post) = 0

----------------------------------------------------------------------------
\* futures of this invocation, collected or launched, that write to name n
AdmittedFor(n) ==
    Cardinality({i \in DOMAIN tasks : tasks[i].name = n})
        + CountIn(joins, LAMBDA t : t.name = n)

\* C14: of the posts of one invocation that have the same destination file
\* name at most one is admitted, and fs::write is called on no path twice.
C14_OneWriterPerName ==
    \A n \in Names :
        /\ AdmittedFor(n) <= 1
        /\ CopiesIn(n, writes) <= 1

----------------------------------------------------------------------------
\* progress lines that show the number k
LinesNumbered(k) == CountIn(stdout, LAMBDA l : l.n = k)

\* C15: every outcome has its one progress line, and the number a line shows
\* is the value of processed right after the increment of its own post: the
\* lines printed so far are as many as processed counts and show the numbers
\* 1 .. processed, each once.
C15_PostIncrementLines ==
    /\ BagCardinality(stdout) = processed
    /\ \A l \in BagToSet(stdout) : l.n \in 1..processed
    /\ \A k \in 1..processed : LinesNumbered(k) = 1

----------------------------------------------------------------------------
\* the posts of the first n pages of the service
PostsBefore(n) == Concat(SubSeq(remote.pages, 1, n))

\* posts the for loop has visited: reported as existing, or their future collected
Visited == Tagged("already exists") + Len(tasks)

\* C16: the queries of an invocation are the probe (limit 1, offset 0) and
\* then the pages (limit 100) at offsets 0, 1, 2, ... in this order, each
\* issued only after all but the last were answered with posts; a page query
\* is issued only when every post of the pages before it was recorded in the
\* store (when there is one) and visited by the for loop.
C16_ProbeThenPagesInOrder ==
    /\ [](\A i \in DOMAIN searches :
            /\ i = 1 => (searches[i].limit = ProbeLimit /\ searches[i].pid = 0)
            /\ i > 1 => (searches[i].limit = PageLimit /\ searches[i].pid = i - 2)
            /\ i < Len(searches) => searches[i].ok
            /\ (1 < i /\ i < Len(searches)) => IsSome(Answer(PageLimit, searches[i].pid).posts))
    /\ [][(run' = run /\ Len(searches') > Len(searches) /\ Len(searches) >= 1) =>
            /\ Len(searches') = Len(searches) + 1
            /\ Last(searches').pid = page
            /\ queue = <<>>
            /\ Visited = Len(PostsBefore(page))
            /\ json_printer.kind # "NoOp" =>
                   json_printer.map = MapExtend(<<>>, PostsBefore(page))]_vars

\* the probe and three page queries over a service with two pages of posts
C16_Witness ==
    /\ Len(remote.pages) = 2
    /\ Len(remote.pages[1]) >= 1
    /\ Len(remote.pages[2]) >= 1
    /\ searches = <<[limit |-> ProbeLimit, pid |-> 0, ok |-> TRUE],
                    [limit |-> PageLimit, pid |-> 0, ok |-> TRUE],
                    [limit |-> PageLimit, pid |-> 1, ok |-> TRUE],
                    [limit |-> PageLimit, pid |-> 2, ok |-> TRUE]>>
    /\ pc = "spawn"
    /\ Visited = Len(Catalogue)

----------------------------------------------------------------------------
\* C17: the permits available and the permits held by tasks are 24 together
\* in every state; the step in which a task ends gives its permit back,
\* whatever download_image returned; when every task has ended all 24 permits
\* are available.
C17_PermitsConserved ==
    /\ [](permits + Held = K)
    /\ [][CountIn(joins', IsFinished) > CountIn(joins, IsFinished) =>
            /\ permits' = permits + 1
            /\ Held' = Held - 1]_vars
    /\ []((pc = "join" /\ AllJoined) => permits = K)
    /\ [](SummaryReached => permits = K)

\* a task that failed and a task that succeeded have both ended and every
\* permit is available
C17_Witness ==
    /\ pc = "join"
    /\ AllJoined
    /\ permits = K
    /\ \E t \in BagToSet(joins) : t.res = "Err"
    /\ \E t \in BagToSet(joins) : t.res = "Ok"

----------------------------------------------------------------------------
\* C18: under fair scheduling, once pagination has ended, with more futures
\* collected than there are permits or not, the summary is eventually
\* printed, and by then every post has its outcome (so every task got a
\* permit and ended) and every permit is back.
C18_EveryTaskEndsAndSummary ==
    (pc = "spawn") ~> (SummaryReached /\ AllReported /\ permits = K)

\* the summary of an invocation that downloaded one file more than there are permits
C18_Witness ==
    /\ SummaryReached
    /\ summary[1].wrote = K + Extra
    /\ processed = K + Extra
    /\ permits = K

----------------------------------------------------------------------------
\* C19: written never exceeds processed; within an invocation neither
\* counter ever decreases and each step adds at most one to each; the
\* summary's processed - written is a natural number.
C19_WrittenAtMostProcessed ==
    /\ [](written <= processed)
    /\ [][run' = run =>
            /\ processed' \in {processed, processed + 1}
            /\ written' \in {written, written + 1}]_vars
    /\ [](SummaryReached =>
            /\ processed - written \in Nat
            /\ summary[1].skipped \in Nat)

\* two posts processed, one counted as written, the second reported as
\* downloaded and not yet counted
C19_Witness ==
    /\ processed = 2
    /\ written = 1
    /\ Tagged("downloaded") = 2
    /\ \E t \in BagToSet(joins) : t.pc = "written"

====
